---- MODULE Spec2Model ----
(***************************************************************************)
(* Account-security engine of the MRC authentication backend:              *)
(* backend/app/models.py (class User) and backend/app/auth/routes.py.      *)
(*                                                                         *)
(* One account row is modelled.  Time is counted in minutes; every         *)
(* datetime.now() read made by one handler falls in the same minute, so a  *)
(* handler runs at the single instant `now`.  Handlers run one at a time   *)
(* (the serialized view of section 5 of the specification), except in      *)
(* SpecRace and SpecCommits, where requests overlap.                       *)
(***************************************************************************)
EXTENDS Integers, Sequences, FiniteSets, TLC

VARIABLES
    now,            \* the clock, datetime.now(timezone.utc), in minutes
    user,           \* the User row
    tokens_issued,  \* how many reset tokens secrets.token_urlsafe has produced
    last,           \* the step that led to this state: call, inputs, response
    run,            \* observer: wrong-password login requests since the reset state
    durations,      \* observer: lock durations set by the last two lockout rounds
    used,           \* observer: reset tokens a completed password reset has consumed
    jar,            \* the client's cookie jar: access and refresh token cookies
    txn,            \* requests in flight: what each has loaded and not yet committed
    overlapped,     \* observer: some request began while another was in flight
    counted,        \* observer: wrong-password logins past the lock check since the last reset
    kept            \* a copy of the refresh cookie held outside the jar, and what
                    \* has happened to the account since the cookie was issued

obs  == <<run, durations>>
\* the requests in flight and what is observed of them
conc == <<txn, overlapped, counted>>
\* what a specification that follows neither the observers nor the client leaves alone
aside == <<run, durations, used, jar, conc, kept>>
vars == <<now, user, tokens_issued, last, run, durations, used, jar,
          txn, overlapped, counted, kept>>

---------------------------------------------------------------------------
(* Bounds of the exploration *)

MaxTime == 120
LockoutHorizon == 20
MaxAttempts == 10
MaxTokens == 2
RunCap == 4

(* Steps by which the clock advances, in minutes: an hour at a time where the
   reset token's expiry is followed, five minutes at a time where a lock's is *)
TickSteps == {60}
LockoutSteps == {5}

---------------------------------------------------------------------------
(* Program constants *)

\* a nullable column holding NULL (Python None)
None == -1

LockoutThreshold == 3
LockoutBaseMinutes == 5
LockoutCapMinutes == 240
ResetTokenMinutes == 60

\* the fixture account: conftest.create_test_user
Username == "testuser"
Email == "test@example.com"
TestPassword == "TestPass123!"
WrongPassword == "WrongPassword123!"
NewPassword == "NewPassword123!"
WeakPassword == "weak"

Min(a, b) == IF a <= b THEN a ELSE b

---------------------------------------------------------------------------
(* Credential store: User.set_password / User.check_password *)

\* values bcrypt.gensalt() returns: two are enough to tell a hash from the next
Salts == {"salt_a", "salt_b"}

\* bcrypt.hashpw(password, salt): an opaque value that determines the
\* password it was made from and carries the salt
hashpw(password, salt) == [password |-> password, salt |-> salt]

\* bcrypt.checkpw(password, hash)
checkpw(password, hash) == hash.password = password

\* variant of set_password that salts every hash alike
set_password_fixed_salt(u, password, salt) ==
    [u EXCEPT !.password_hash = hashpw(password, "salt_a")]

set_password(u, password, salt) ==
    [u EXCEPT !.password_hash = hashpw(password, salt)]

\* variant of check_password that accepts every password
check_password_any(u, password) == TRUE

check_password(u, password) == checkpw(password, u.password_hash)

---------------------------------------------------------------------------
(* Lockout state machine: User.is_account_locked .. User.unlock_account *)

\* variants of is_account_locked with the comparison turned round, and with
\* the instant of expiry still counted as locked
is_account_locked_reversed(u, t) ==
    IF u.locked_until = None
    THEN FALSE
    ELSE t > u.locked_until

is_account_locked_le(u, t) ==
    IF u.locked_until = None
    THEN FALSE
    ELSE t <= u.locked_until

is_account_locked(u, t) ==
    IF u.locked_until = None
    THEN FALSE
    ELSE t < u.locked_until

\* variants of lockout_minutes: without the cap, and with the durations the
\* comment above it lists (5 min, 15 min, 30 min, 1 hr, 2 hr, max 4 hr)
lockout_minutes_uncapped(attempts) ==
    LockoutBaseMinutes * (2 ^ (attempts - LockoutThreshold))

lockout_minutes_as_commented(attempts) ==
    CASE attempts = 3 -> 5 [] attempts = 4 -> 15 [] attempts = 5 -> 30
      [] attempts = 6 -> 60 [] attempts = 7 -> 120 [] OTHER -> 240

\* variant of lockout_minutes that grows by five minutes a failure, from zero
lockout_minutes_linear(attempts) ==
    Min(LockoutBaseMinutes * (attempts - LockoutThreshold), LockoutCapMinutes)

lockout_minutes(attempts) ==
    Min(LockoutBaseMinutes * (2 ^ (attempts - LockoutThreshold)), LockoutCapMinutes)

\* variant of handle_failed_login that locks only past the threshold
handle_failed_login_gt(u, t) ==
    LET n  == u.failed_login_attempts + 1
        u1 == [u EXCEPT !.failed_login_attempts = n, !.last_failed_login = t]
    IN  IF n > LockoutThreshold
        THEN [user    |-> [u1 EXCEPT !.locked_until = t + lockout_minutes(n)],
              events  |-> <<"ACCOUNT_LOCKED">>,
              details |-> [attempts |-> n, duration |-> lockout_minutes(n)]]
        ELSE [user    |-> u1,
              events  |-> <<"LOGIN_FAILED">>,
              details |-> [attempts |-> n, duration |-> None]]

\* returns the updated row, the security events logged and the details of the
\* event: "Attempts:n Duration:m min", or "Attempts:n"
handle_failed_login(u, t) ==
    LET n  == u.failed_login_attempts + 1
        u1 == [u EXCEPT !.failed_login_attempts = n, !.last_failed_login = t]
    IN  IF n >= LockoutThreshold
        THEN [user    |-> [u1 EXCEPT !.locked_until = t + lockout_minutes(n)],
              events  |-> <<"ACCOUNT_LOCKED">>,
              details |-> [attempts |-> n, duration |-> lockout_minutes(n)]]
        ELSE [user    |-> u1,
              events  |-> <<"LOGIN_FAILED">>,
              details |-> [attempts |-> n, duration |-> None]]

update_last_login(u, t) == [u EXCEPT !.last_login = t]

\* variant of handle_successful_login that leaves the counter as it is
handle_successful_login_keeps_count(u, t) ==
    [user   |-> update_last_login(
                    [u EXCEPT !.locked_until = None,
                              !.last_failed_login = None], t),
     events |-> <<"LOGIN_SUCCESS">>]

\* variant of handle_successful_login that resets the counter but not the lock
handle_successful_login_keeps_lock(u, t) ==
    [user   |-> update_last_login(
                    [u EXCEPT !.failed_login_attempts = 0,
                              !.last_failed_login = None], t),
     events |-> <<"LOGIN_SUCCESS">>]

handle_successful_login(u, t) ==
    [user   |-> update_last_login(
                    [u EXCEPT !.failed_login_attempts = 0,
                              !.locked_until = None,
                              !.last_failed_login = None], t),
     events |-> <<"LOGIN_SUCCESS">>]

\* variant of unlock_account that also drops a pending reset token
unlock_account_clears_token(u) ==
    [user   |-> [u EXCEPT !.failed_login_attempts = 0,
                          !.locked_until = None,
                          !.last_failed_login = None,
                          !.password_reset_token = None,
                          !.password_reset_expires = None],
     events |-> <<"ACCOUNT_UNLOCKED">>]

unlock_account(u) ==
    [user   |-> [u EXCEPT !.failed_login_attempts = 0,
                          !.locked_until = None,
                          !.last_failed_login = None],
     events |-> <<"ACCOUNT_UNLOCKED">>]

---------------------------------------------------------------------------
(* Reset token manager: User.generate_password_reset_token .. reset_password *)

\* variant of generate_password_reset_token that keeps a token already stored
generate_password_reset_token_keeps_first(u, t, token) ==
    [user   |-> IF u.password_reset_token # None
                THEN u
                ELSE [u EXCEPT !.password_reset_token = token,
                               !.password_reset_expires = t + ResetTokenMinutes],
     events |-> <<"PASSWORD_RESET_REQUESTED">>,
     ret    |-> token]

generate_password_reset_token(u, t, token) ==
    [user   |-> [u EXCEPT !.password_reset_token = token,
                          !.password_reset_expires = t + ResetTokenMinutes],
     events |-> <<"PASSWORD_RESET_REQUESTED">>,
     ret    |-> token]

\* variant of clear_password_reset_token that forgets the expiry column
clear_password_reset_token_only(u) ==
    [u EXCEPT !.password_reset_token = None]

clear_password_reset_token(u) ==
    [u EXCEPT !.password_reset_token = None,
              !.password_reset_expires = None]

\* secrets.compare_digest on two strings
compare_digest(a, b) == a = b

\* whether a candidate is a str: compare_digest raises TypeError when given
\* None for one
is_str(token) == token # None

\* variant of verify_password_reset_token that takes the expiry instant as expired
verify_password_reset_token_ge(u, t, token) ==
    IF u.password_reset_token = None \/ u.password_reset_expires = None
    THEN [user |-> u, ret |-> FALSE, raised |-> ""]
    ELSE IF t >= u.password_reset_expires
         THEN [user |-> clear_password_reset_token(u), ret |-> FALSE, raised |-> ""]
         ELSE IF ~is_str(token)
              THEN [user |-> u, ret |-> FALSE, raised |-> "TypeError"]
              ELSE [user |-> u, ret |-> compare_digest(u.password_reset_token, token),
                    raised |-> ""]

\* variant of verify_password_reset_token that consumes the token it accepts
verify_password_reset_token_consumes(u, t, token) ==
    IF u.password_reset_token = None \/ u.password_reset_expires = None
    THEN [user |-> u, ret |-> FALSE, raised |-> ""]
    ELSE IF t > u.password_reset_expires
         THEN [user |-> clear_password_reset_token(u), ret |-> FALSE, raised |-> ""]
         ELSE IF ~is_str(token)
              THEN [user |-> u, ret |-> FALSE, raised |-> "TypeError"]
              ELSE IF compare_digest(u.password_reset_token, token)
              THEN [user |-> clear_password_reset_token(u), ret |-> TRUE, raised |-> ""]
              ELSE [user |-> u, ret |-> FALSE, raised |-> ""]

\* variant of verify_password_reset_token that accepts any candidate while a
\* token is stored
verify_password_reset_token_any(u, t, token) ==
    IF u.password_reset_token = None \/ u.password_reset_expires = None
    THEN [user |-> u, ret |-> FALSE, raised |-> ""]
    ELSE IF t > u.password_reset_expires
         THEN [user |-> clear_password_reset_token(u), ret |-> FALSE, raised |-> ""]
         ELSE [user |-> u, ret |-> TRUE, raised |-> ""]

verify_password_reset_token(u, t, token) ==
    IF u.password_reset_token = None \/ u.password_reset_expires = None
    THEN [user |-> u, ret |-> FALSE, raised |-> ""]
    ELSE IF t > u.password_reset_expires
         THEN [user |-> clear_password_reset_token(u), ret |-> FALSE, raised |-> ""]
         ELSE IF ~is_str(token)
              THEN [user |-> u, ret |-> FALSE, raised |-> "TypeError"]
              ELSE [user |-> u, ret |-> compare_digest(u.password_reset_token, token),
                    raised |-> ""]

\* variant of reset_password that leaves an open lock window in place
reset_password_keeps_lock(u, new_password, salt) ==
    LET u1 == clear_password_reset_token(set_password(u, new_password, salt))
    IN  [user   |-> [u1 EXCEPT !.failed_login_attempts = 0],
         events |-> <<"PASSWORD_RESET_COMPLETED">>]

\* variant of reset_password that leaves the token it was given in place
reset_password_keeps_token(u, new_password, salt) ==
    LET u1 == set_password(u, new_password, salt)
    IN  [user   |-> [u1 EXCEPT !.failed_login_attempts = 0,
                               !.locked_until = None],
         events |-> <<"PASSWORD_RESET_COMPLETED">>]

reset_password(u, new_password, salt) ==
    LET u1 == clear_password_reset_token(set_password(u, new_password, salt))
    IN  [user   |-> [u1 EXCEPT !.failed_login_attempts = 0,
                               !.locked_until = None],
         events |-> <<"PASSWORD_RESET_COMPLETED">>]

---------------------------------------------------------------------------
(* The record of a step *)

NoStep ==
    [op |-> "init", ident |-> "", password |-> "", token |-> None,
     status |-> 0, error |-> "", access |-> FALSE, refresh |-> FALSE,
     ret |-> FALSE, events |-> <<>>, was_locked |-> FALSE,
     had_token |-> FALSE, remember_me |-> FALSE,
     null_arg |-> FALSE, raised |-> "",
     details |-> [attempts |-> None, duration |-> None],
     lock_expired |-> FALSE]

\* the row's lock window is open at time t, read off the fields
LockWindowOpen(u, t) == u.locked_until # None /\ t < u.locked_until

\* the row carries a lock that has run out by time t: nothing clears
\* locked_until when it passes
LockRunOut(u, t) == u.locked_until # None /\ t >= u.locked_until

\* a call or request arriving now; it notes whether it met an open lock window,
\* whether it met a lock that had run out, and whether it met a stored reset
\* token
Step(op) ==
    [NoStep EXCEPT !.op = op,
                   !.was_locked = LockWindowOpen(user, now),
                   !.had_token = (user.password_reset_token # None),
                   !.lock_expired = LockRunOut(user, now)]

\* a salt bcrypt.gensalt() may return next: never the one just used
FreshSalts(u) == Salts \ {u.password_hash.salt}

---------------------------------------------------------------------------
(* Session tokens: flask_jwt_extended tokens as the routes use them.  A     *)
(* token carries the account's id (its identity) and its time of issue.     *)

\* User.id of the account, and an id no row has (an account since removed)
UserId == 1
RemovedUserId == 2

NoToken == [sub |-> None, iat |-> None]

\* create_access_token / create_refresh_token(identity=...)
create_token(identity, t) == [sub |-> identity, iat |-> t]

NoCookies == [access |-> NoToken, refresh |-> NoToken]

\* no copy of a refresh cookie has been made
NoCopy == [refresh |-> NoToken, since |-> {}]

---------------------------------------------------------------------------
(* Requests in flight.  Each request works on the row its own database      *)
(* session loaded; nothing is locked between the query and the commit.      *)

\* two login requests at a time
Workers == {1, 2}

Idle == [pc |-> "idle", row |-> None, password |-> ""]

NoRequests == [login |-> [w \in Workers |-> Idle],
               reset |-> [pc |-> "idle"]]

---------------------------------------------------------------------------
(* State after construction: conftest.create_test_user / init_db *)

NewUser(active) ==
    [password_hash          |-> hashpw(TestPassword, "salt_a"),
     is_active              |-> active,
     last_login             |-> None,
     password_reset_token   |-> None,
     password_reset_expires |-> None,
     failed_login_attempts  |-> 0,
     locked_until           |-> None,
     last_failed_login      |-> None]

Init ==
    /\ now = 0
    /\ \E active \in BOOLEAN : user = NewUser(active)
    /\ tokens_issued = 0
    /\ last = NoStep
    /\ run = [n |-> 0, ok |-> TRUE, locked |-> FALSE]
    /\ durations = <<>>
    /\ used = {}
    /\ jar = NoCookies
    /\ txn = NoRequests
    /\ overlapped = FALSE
    /\ counted = 0
    /\ kept = NoCopy

---------------------------------------------------------------------------
(* The clock *)

Tick(d, horizon) ==
    /\ now + d <= horizon
    /\ now' = now + d
    /\ last' = [NoStep EXCEPT !.op = "tick"]
    /\ UNCHANGED <<user, tokens_issued>>

---------------------------------------------------------------------------
(* Direct calls of the model's methods (unit tests, administrative callers) *)

Call_is_account_locked ==
    /\ last' = [Step("is_account_locked") EXCEPT !.ret = is_account_locked(user, now)]
    /\ UNCHANGED <<now, user, tokens_issued>>

Call_handle_failed_login ==
    /\ user.failed_login_attempts < MaxAttempts
    /\ LET r == handle_failed_login(user, now)
       IN  /\ user' = r.user
           /\ last' = [Step("handle_failed_login")
                          EXCEPT !.events = r.events, !.details = r.details]
    /\ UNCHANGED <<now, tokens_issued>>

Call_handle_successful_login ==
    /\ LET r == handle_successful_login(user, now)
       IN  /\ user' = r.user
           /\ last' = [Step("handle_successful_login") EXCEPT !.events = r.events]
    /\ UNCHANGED <<now, tokens_issued>>

Call_unlock_account ==
    /\ LET r == unlock_account(user)
       IN  /\ user' = r.user
           /\ last' = [Step("unlock_account") EXCEPT !.events = r.events]
    /\ UNCHANGED <<now, tokens_issued>>

Call_generate_password_reset_token ==
    /\ tokens_issued < MaxTokens
    /\ LET r == generate_password_reset_token(user, now, tokens_issued + 1)
       IN  /\ user' = r.user
           /\ last' = [Step("generate_password_reset_token")
                          EXCEPT !.token = r.ret, !.events = r.events]
    /\ tokens_issued' = tokens_issued + 1
    /\ UNCHANGED now

\* the candidate is a string: 0 stands for one that was never issued
Call_verify_password_reset_token(token) ==
    /\ LET r == verify_password_reset_token(user, now, token)
       IN  /\ user' = r.user
           /\ last' = [Step("verify_password_reset_token")
                          EXCEPT !.token = token, !.ret = r.ret, !.raised = r.raised]
    /\ UNCHANGED <<now, tokens_issued>>

\* user.set_password(password)
Call_set_password(password) ==
    /\ \E salt \in FreshSalts(user) :
         user' = set_password(user, password, salt)
    /\ last' = [Step("set_password") EXCEPT !.password = password]
    /\ UNCHANGED <<now, tokens_issued>>

\* user.check_password(password); null_arg: the argument is None, on which
\* password.encode raises AttributeError
Call_check_password(null_arg, password) ==
    /\ last' = IF null_arg
               THEN [Step("check_password")
                        EXCEPT !.null_arg = TRUE, !.raised = "AttributeError"]
               ELSE [Step("check_password")
                        EXCEPT !.password = password,
                               !.ret = check_password(user, password)]
    /\ UNCHANGED <<now, user, tokens_issued>>

Call_clear_password_reset_token ==
    /\ user' = clear_password_reset_token(user)
    /\ last' = Step("clear_password_reset_token")
    /\ UNCHANGED <<now, tokens_issued>>

Call_reset_password(new_password) ==
    /\ \E salt \in FreshSalts(user) :
         LET r == reset_password(user, new_password, salt)
         IN  /\ user' = r.user
             /\ last' = [Step("reset_password")
                            EXCEPT !.password = new_password, !.events = r.events]
    /\ UNCHANGED <<now, tokens_issued>>

---------------------------------------------------------------------------
(* Route helpers: auth/routes.py *)

\* what validate_password_strength looks at in a password
Features(password) ==
    CASE password = WeakPassword ->
           [len |-> 4, upper |-> FALSE, lower |-> TRUE, digit |-> FALSE, special |-> FALSE]
      [] password = TestPassword ->
           [len |-> 12, upper |-> TRUE, lower |-> TRUE, digit |-> TRUE, special |-> TRUE]
      [] password = NewPassword ->
           [len |-> 15, upper |-> TRUE, lower |-> TRUE, digit |-> TRUE, special |-> TRUE]
      [] password = WrongPassword ->
           [len |-> 17, upper |-> TRUE, lower |-> TRUE, digit |-> TRUE, special |-> TRUE]

MinPasswordLength == 8

validate_password_strength(password) ==
    LET f == Features(password)
    IN  IF f.len < MinPasswordLength THEN "Password must be at least 8 characters long"
        ELSE IF ~f.upper THEN "Password must contain at least one uppercase letter"
        ELSE IF ~f.lower THEN "Password must contain at least one lowercase letter"
        ELSE IF ~f.digit THEN "Password must contain at least one number"
        ELSE IF ~f.special THEN "Password must contain at least one special character"
        ELSE "Password meets all requirements"

is_valid(password) == validate_password_strength(password) = "Password meets all requirements"

\* User.query.filter((username == x) | (email == x)).first(): is the row found
find_by_username_or_email(ident) == ident \in {Username, Email}

\* User.query.filter_by(email=x).first()
find_by_email(email) == email = Email

---------------------------------------------------------------------------
(* POST /login *)

\* variant of the unknown-user response that tells the caller no such user exists
unknown_user_response_not_found == [status |-> 404, error |-> "User not found"]

\* what login answers when no row matches the identifier
unknown_user_response == [status |-> 401, error |-> "Invalid credentials"]

login(ident, password, remember_me) ==
    /\ (find_by_username_or_email(ident) /\ password # "" /\ ~is_account_locked(user, now)
            /\ ~check_password(user, password))
         => user.failed_login_attempts < MaxAttempts
    /\ LET req == [Step("login") EXCEPT !.ident = ident, !.password = password,
                                        !.remember_me = remember_me]
       IN
       IF ident = "" \/ password = ""
       THEN /\ last' = [req EXCEPT !.status = 400,
                                   !.error = "Username/email and password are required"]
            /\ user' = user
       ELSE IF ~find_by_username_or_email(ident)
       THEN /\ last' = [req EXCEPT !.status = unknown_user_response.status,
                                   !.error = unknown_user_response.error]
            /\ user' = user
       ELSE IF is_account_locked(user, now)
       THEN /\ last' = [req EXCEPT !.status = 401,
                                   !.error = "Account temporarily locked due to failed login attempts",
                                   !.events = <<"LOGIN_BLOCKED_LOCKED">>]
            /\ user' = user
       ELSE IF ~check_password(user, password)
       THEN LET r == handle_failed_login(user, now)
            IN  /\ user' = r.user
                /\ last' = [req EXCEPT !.status = 401, !.error = "Invalid credentials",
                                       !.events = r.events, !.details = r.details]
       ELSE IF ~user.is_active
       THEN /\ last' = [req EXCEPT !.status = 401, !.error = "Account is deactivated",
                                   !.events = <<"LOGIN_BLOCKED_INACTIVE">>]
            /\ user' = user
       ELSE LET r == handle_successful_login(user, now)
            IN  /\ user' = r.user
                /\ last' = [req EXCEPT !.status = 200, !.access = TRUE,
                                       !.refresh = remember_me, !.events = r.events]
    /\ UNCHANGED <<now, tokens_issued>>

---------------------------------------------------------------------------
(* POST /request-password-reset; mail_ok: whether mail.send succeeds *)

request_password_reset(email, mail_ok) ==
    /\ (find_by_email(email) /\ user.is_active) => tokens_issued < MaxTokens
    /\ LET req == [Step("request_password_reset") EXCEPT !.ident = email]
       IN
       IF email = ""
       THEN /\ last' = [req EXCEPT !.status = 400, !.error = "Email is required"]
            /\ UNCHANGED <<user, tokens_issued>>
       ELSE IF find_by_email(email) /\ user.is_active
       THEN LET r == generate_password_reset_token(user, now, tokens_issued + 1)
            IN  /\ tokens_issued' = tokens_issued + 1
                /\ IF mail_ok
                   THEN /\ user' = r.user
                        /\ last' = [req EXCEPT !.status = 200, !.token = r.ret,
                                       !.events = r.events \o <<"PASSWORD_RESET_EMAIL_SENT">>]
                   ELSE /\ user' = clear_password_reset_token(r.user)
                        /\ last' = [req EXCEPT !.status = 500,
                                       !.error = "Failed to send reset email",
                                       !.raised = "mail.send",
                                       !.events = r.events]
       ELSE /\ last' = [req EXCEPT !.status = 200]
            /\ UNCHANGED <<user, tokens_issued>>
    /\ UNCHANGED now

---------------------------------------------------------------------------
(* POST /reset-password *)

reset_password_endpoint(email, token, new_password) ==
    /\ LET req == [Step("reset_password_endpoint")
                      EXCEPT !.ident = email, !.token = token, !.password = new_password]
       IN
       IF email = "" \/ token = None \/ new_password = ""
       THEN /\ last' = [req EXCEPT !.status = 400,
                                   !.error = "Email, token, and new password are required"]
            /\ user' = user
       ELSE IF ~find_by_email(email)
       THEN /\ last' = [req EXCEPT !.status = 400, !.error = "Invalid reset token"]
            /\ user' = user
       ELSE LET v == verify_password_reset_token(user, now, token)
            IN  IF ~v.ret
                THEN /\ user' = v.user
                     /\ last' = [req EXCEPT !.status = 400,
                                    !.error = "Invalid or expired reset token",
                                    !.events = <<"PASSWORD_RESET_INVALID_TOKEN">>]
                ELSE IF ~is_valid(new_password)
                THEN /\ user' = v.user
                     /\ last' = [req EXCEPT !.status = 400,
                                    !.error = validate_password_strength(new_password)]
                ELSE \E salt \in FreshSalts(v.user) :
                       LET r == reset_password(v.user, new_password, salt)
                       IN  /\ user' = r.user
                           /\ last' = [req EXCEPT !.status = 200, !.events = r.events]
    /\ UNCHANGED <<now, tokens_issued>>

---------------------------------------------------------------------------
(* Inputs the requests are drawn from *)

Emails == {Email, "nobody@example.com"}
LoginPasswords == {TestPassword, WrongPassword, NewPassword, ""}
\* identifier and password of a login request: every password against the
\* account, one request naming nobody
LoginRequests ==
    ({Username} \X LoginPasswords) \cup {<<"nobody@example.com", TestPassword>>}
NewPasswords == {NewPassword, WeakPassword}
CandidateTokens == 0..MaxTokens

---------------------------------------------------------------------------
(* The account's operations, one at a time *)

Next ==
    \/ \E d \in TickSteps : Tick(d, MaxTime) /\ UNCHANGED aside
    \/ Call_unlock_account /\ UNCHANGED aside
    \/ Call_generate_password_reset_token /\ UNCHANGED aside
    \/ \E token \in CandidateTokens : Call_verify_password_reset_token(token) /\ UNCHANGED aside
    \/ Call_clear_password_reset_token /\ UNCHANGED aside
    \/ \E p \in NewPasswords : Call_reset_password(p) /\ UNCHANGED aside
    \/ \E req \in LoginRequests, remember_me \in BOOLEAN :
         login(req[1], req[2], remember_me) /\ UNCHANGED aside
    \/ \E email \in Emails, mail_ok \in BOOLEAN :
         request_password_reset(email, mail_ok) /\ UNCHANGED aside
    \/ \E email \in Emails, token \in CandidateTokens \cup {None}, p \in NewPasswords :
         reset_password_endpoint(email, token, p) /\ UNCHANGED aside

Spec == Init /\ [][Next]_vars

(* The lockout state machine alone: its methods called directly, and login *)

NextLockout ==
    \/ \E d \in LockoutSteps : Tick(d, LockoutHorizon) /\ UNCHANGED aside
    \/ Call_is_account_locked /\ UNCHANGED aside
    \/ Call_handle_failed_login /\ UNCHANGED aside
    \/ Call_handle_successful_login /\ UNCHANGED aside
    \/ Call_unlock_account /\ UNCHANGED aside
    \/ \E req \in LoginRequests, remember_me \in BOOLEAN :
         login(req[1], req[2], remember_me) /\ UNCHANGED aside

SpecLockout == Init /\ [][NextLockout]_vars

---------------------------------------------------------------------------
(* Lockout rounds as the integration tests drive them                       *)
(* (tests/integration/test_auth_flow.py, TestAccountLockoutFlow): wrong-    *)
(* password login requests against the account, unlock_account between the  *)
(* rounds.  The observer counts the requests of the current round and keeps *)
(* the lock durations the last two rounds set.                              *)

LockedMessage == "Account temporarily locked due to failed login attempts"

\* the step just taken was a login request naming the account
NamesAccount(l) == l.op = "login" /\ find_by_username_or_email(l.ident) /\ l.password # ""

Window(d) == IF Len(durations) < 2 THEN Append(durations, d) ELSE <<durations[2], d>>

\* the lock duration a step left behind, 0 if it left the account without a lock
DurationSet(u, t) == IF u.locked_until = None THEN 0 ELSE u.locked_until - t

ObserveLogin ==
    IF ~NamesAccount(last')
    THEN UNCHANGED obs
    ELSE IF ~check_password(user, last'.password)
    THEN /\ run' = [n      |-> Min(run.n + 1, RunCap),
                    ok     |-> run.ok,
                    locked |-> is_account_locked(user, now)]
         /\ durations' = IF run.ok /\ run.n + 1 = LockoutThreshold
                         THEN Window(DurationSet(user', now))
                         ELSE durations
    ELSE IF last'.status = 200
    THEN /\ run' = [n |-> 0, ok |-> TRUE, locked |-> FALSE]
         /\ durations' = <<>>
    ELSE /\ run' = [run EXCEPT !.ok = FALSE]
         /\ durations' = <<>>

ObserveUnlock ==
    /\ run' = [n |-> 0, ok |-> TRUE, locked |-> FALSE]
    /\ durations' = IF run.ok /\ run.n >= LockoutThreshold THEN durations ELSE <<>>

NextLoginRuns ==
    \/ \E d \in LockoutSteps : Tick(d, LockoutHorizon) /\ UNCHANGED aside
    \/ \E password \in {TestPassword, WrongPassword} :
         login(Username, password, FALSE) /\ ObserveLogin /\ UNCHANGED <<used, jar, conc, kept>>
    \/ Call_unlock_account /\ ObserveUnlock /\ UNCHANGED <<used, jar, conc, kept>>

SpecLoginRuns == Init /\ [][NextLoginRuns]_vars

---------------------------------------------------------------------------
(* Properties of the lockout state machine                                  *)

\* the step just taken was a login request that supplied a password for the account
IsAccountLogin(l) == l.op = "login" /\ l.ident \in {Username, Email} /\ l.password # ""

(* C1: a login request made while the account is locked (locked_until set   *)
(* and now < locked_until) is answered with the account-locked error        *)
(* whatever password is supplied, the correct one included; it issues no    *)
(* access or refresh token and leaves failed_login_attempts, locked_until,  *)
(* last_failed_login and last_login unchanged.                              *)
C1_LockedLoginRejected ==
    [][ (IsAccountLogin(last') /\ LockWindowOpen(user, now))
          => /\ last'.status = 401
             /\ last'.error = LockedMessage
             /\ ~last'.access
             /\ ~last'.refresh
             /\ user'.failed_login_attempts = user.failed_login_attempts
             /\ user'.locked_until = user.locked_until
             /\ user'.last_failed_login = user.last_failed_login
             /\ user'.last_login = user.last_login ]_vars

\* reached: the correct password was presented inside the lock window and refused
C1_Witness ==
    /\ IsAccountLogin(last)
    /\ last.password = user.password_hash.password
    /\ last.was_locked
    /\ LockWindowOpen(user, now)
    /\ last.error = LockedMessage
    /\ user.is_active

DurationTable(n) ==
    CASE n = 3 -> 5  [] n = 4 -> 10 [] n = 5 -> 20 [] n = 6 -> 40
      [] n = 7 -> 80 [] n = 8 -> 160 [] n >= 9 -> 240

C5_IsLocked ==
    [][ last'.op = "is_account_locked"
          => /\ last'.ret = (user.locked_until # None /\ now < user.locked_until)
             /\ user' = user ]_vars

\* reached: the query made at the very instant the lock runs out answers false
C5_Witness ==
    /\ last.op = "is_account_locked"
    /\ user.locked_until = now
    /\ ~last.ret

(* C6: from any prior account state (any failure count, locked or not),     *)
(* handle_successful_login at time now yields failed_login_attempts = 0,    *)
(* locked_until = null, last_failed_login = null and last_login = now.      *)
C6_RecordSuccess ==
    [][ (last'.op = "handle_successful_login" \/ (last'.op = "login" /\ last'.status = 200))
          => /\ user'.failed_login_attempts = 0
             /\ user'.locked_until = None
             /\ user'.last_failed_login = None
             /\ user'.last_login = now ]_vars

\* reached: a success recorded on an account that was locked when it came
C6_Witness ==
    /\ last.op = "handle_successful_login"
    /\ last.was_locked
    /\ user.failed_login_attempts = 0
    /\ user.locked_until = None
    /\ user.last_login = now
    /\ now > 0

(* C7: unlock_account from any prior state yields failed_login_attempts = 0, *)
(* locked_until = null, last_failed_login = null and is_account_locked =    *)
(* false, and leaves last_login, the password hash and the reset-token      *)
(* fields unchanged.                                                        *)
C7_ManualUnlock ==
    [][ last'.op = "unlock_account"
          => /\ user'.failed_login_attempts = 0
             /\ user'.locked_until = None
             /\ user'.last_failed_login = None
             /\ ~LockWindowOpen(user', now)
             /\ user'.last_login = user.last_login
             /\ user'.password_hash = user.password_hash
             /\ user'.password_reset_token = user.password_reset_token
             /\ user'.password_reset_expires = user.password_reset_expires ]_vars

\* reached: an unlock of a locked account that has logged in and holds a reset token
C7_Witness ==
    /\ last.op = "unlock_account"
    /\ last.was_locked
    /\ user.last_login # None
    /\ user.password_reset_token # None
    /\ user.password_reset_expires # None
    /\ user.failed_login_attempts = 0

(* C8: in a run of consecutive wrong-password login requests against a      *)
(* fresh active account, requests 1 and 2 are answered 'Invalid credentials' *)
(* and request 3 (the one that reaches the threshold) and every later       *)
(* request made while the lock lasts are answered 'Account temporarily      *)
(* locked'.                                                                 *)
C8_ThirdRequestAnsweredLocked ==
    (IsAccountLogin(last) /\ ~check_password(user, last.password)
        /\ run.ok /\ user.is_active)
      => /\ run.n \in {1, 2} => last.error = "Invalid credentials"
         /\ run.n = 3 => last.error = LockedMessage
         /\ (run.n > 3 /\ run.locked) => last.error = LockedMessage

(* C9: across repeated lockout rounds on one account, where each round      *)
(* after the first starts with unlock_account and then makes three          *)
(* wrong-password login requests, the lockout duration set in each round is *)
(* strictly longer than the duration set in the previous round.             *)
C9_RoundsGrowLonger ==
    Len(durations) = 2 => durations[2] > durations[1]

(* C10: in every state reachable through the account's operations (issue,   *)
(* verify, clear, consume, login, unlock, failed email delivery),           *)
(* password_reset_token is null if and only if password_reset_expires is    *)
(* null.                                                                    *)
C10_TokenAndExpiryTogether ==
    (user.password_reset_token = None) <=> (user.password_reset_expires = None)

\* reached: mail delivery failed on a request that had issued a token, and
\* the token and its expiry are both gone
C10_Witness ==
    /\ last.op = "request_password_reset"
    /\ last.status = 500
    /\ tokens_issued > 0
    /\ user.password_reset_token = None
    /\ user.password_reset_expires = None

---------------------------------------------------------------------------
(* Sessions: a client that keeps the cookies the responses set, logs in,    *)
(* refreshes and logs out, while the account may be deactivated             *)
(* (tests/unit/test_auth_routes.py, TestRefreshEndpoint)                    *)

SessionHorizon == 57600
\* ten days
SessionSteps == {14400}
\* how far the clock goes in steps of one access-token lifetime
ShortHorizon == 960

\* JWT_ACCESS_TOKEN_EXPIRES, JWT_REFRESH_TOKEN_EXPIRES, in minutes
AccessTokenMinutes == 480
RefreshTokenMinutes == 43200

\* variant of unexpired that still accepts a token at its exp instant
unexpired_le(token, t, lifetime) == t <= token.iat + lifetime

\* the token's exp claim has not been reached
unexpired(token, t, lifetime) == t < token.iat + lifetime

\* variant of unset_jwt_cookies that removes the access cookie only
unset_access_cookies(cookies) == [cookies EXCEPT !.access = NoToken]

\* unset_jwt_cookies(response), as the client applies it
unset_jwt_cookies(cookies) == NoCookies

\* User.query.get(id): is the row found
get_by_id(id) == id = UserId

\* variant of account_available that does not look at is_active
account_available_any_state(id, u) == get_by_id(id)

\* variant of account_available that turns a locked account away
account_available_not_locked(id, u) ==
    get_by_id(id) /\ u.is_active /\ u.locked_until = None

\* refresh: the negation of "not user or not user.is_active"
account_available(id, u) == get_by_id(id) /\ u.is_active

\* the client stores the cookies a login response sets
StoreLoginCookies ==
    jar' = [access  |-> IF last'.access THEN create_token(UserId, now) ELSE jar.access,
            refresh |-> IF last'.refresh THEN create_token(UserId, now) ELSE jar.refresh]

\* user.is_active = False; db.session.commit()
Deactivate ==
    /\ user.is_active
    /\ user' = [user EXCEPT !.is_active = FALSE]
    /\ last' = Step("deactivate")
    /\ UNCHANGED <<now, tokens_issued>>

\* POST /refresh, carrying the refresh cookie of the jar
refresh ==
    /\ LET req == Step("refresh")
           token == jar.refresh
       IN
       IF token = NoToken
       THEN /\ last' = [req EXCEPT !.status = 401, !.error = "token_missing"]
            /\ jar' = jar
       ELSE IF ~unexpired(token, now, RefreshTokenMinutes)
       THEN /\ last' = [req EXCEPT !.status = 401, !.error = "token_expired"]
            /\ jar' = jar
       ELSE IF ~account_available(token.sub, user)
       THEN /\ last' = [req EXCEPT !.status = 404, !.error = "User not found or inactive"]
            /\ jar' = jar
       ELSE /\ last' = [req EXCEPT !.status = 200, !.access = TRUE]
            /\ jar' = [jar EXCEPT !.access = create_token(token.sub, now)]
    /\ UNCHANGED <<now, user, tokens_issued>>

\* POST /logout, carrying the access cookie of the jar
logout ==
    /\ LET req == Step("logout")
           token == jar.access
       IN
       IF token = NoToken
       THEN /\ last' = [req EXCEPT !.status = 401, !.error = "token_missing"]
            /\ jar' = jar
       ELSE IF ~unexpired(token, now, AccessTokenMinutes)
       THEN /\ last' = [req EXCEPT !.status = 401, !.error = "token_expired"]
            /\ jar' = jar
       ELSE /\ last' = [req EXCEPT !.status = 200,
                                   !.events = IF get_by_id(token.sub)
                                              THEN <<"LOGOUT">> ELSE <<>>]
            /\ jar' = unset_jwt_cookies(jar)
    /\ UNCHANGED <<now, user, tokens_issued>>

\* GET /profile, carrying the access cookie of the jar
get_profile ==
    /\ LET req == Step("get_profile")
           token == jar.access
       IN
       IF token = NoToken
       THEN last' = [req EXCEPT !.status = 401, !.error = "token_missing"]
       ELSE IF ~unexpired(token, now, AccessTokenMinutes)
       THEN last' = [req EXCEPT !.status = 401, !.error = "token_expired"]
       ELSE IF ~get_by_id(token.sub)
       THEN last' = [req EXCEPT !.status = 404, !.error = "User not found"]
       ELSE last' = [req EXCEPT !.status = 200]
    /\ UNCHANGED <<now, user, tokens_issued, jar>>

\* the account as created, and a client that holds either no cookie or the
\* cookies of an account whose row has since been removed
InitSession ==
    /\ now = 0
    /\ \E active \in BOOLEAN : user = NewUser(active)
    /\ tokens_issued = 0
    /\ last = NoStep
    /\ run = [n |-> 0, ok |-> TRUE, locked |-> FALSE]
    /\ durations = <<>>
    /\ txn = NoRequests
    /\ overlapped = FALSE
    /\ counted = 0
    /\ kept = NoCopy
    /\ used = {}
    /\ jar \in {NoCookies,
                [access  |-> create_token(RemovedUserId, 0),
                 refresh |-> create_token(RemovedUserId, 0)]}

NextSession ==
    \/ \E d \in SessionSteps : Tick(d, SessionHorizon) /\ UNCHANGED aside
    \/ Tick(AccessTokenMinutes, ShortHorizon) /\ UNCHANGED aside
    \/ \E password \in {TestPassword, WrongPassword}, remember_me \in BOOLEAN :
         login(Username, password, remember_me)
            /\ StoreLoginCookies /\ UNCHANGED <<run, durations, used, conc, kept>>
    \/ Deactivate /\ UNCHANGED aside
    \/ refresh /\ UNCHANGED <<run, durations, used, conc, kept>>
    \/ logout /\ UNCHANGED <<run, durations, used, conc, kept>>
    \/ get_profile /\ UNCHANGED <<run, durations, used, conc, kept>>

SpecSession == InitSession /\ [][NextSession]_vars

\* C20: a refresh carrying a valid unexpired refresh token fails and mints no
\* access token whenever the account is missing or is_active is false at that
\* moment, whatever it was at login; otherwise it mints a new access token
\* and neither issues nor replaces the refresh token.
C20_RefreshNeedsActiveAccount ==
    [][ (/\ last'.op = "refresh"
         /\ jar.refresh.sub # None
         /\ now < jar.refresh.iat + RefreshTokenMinutes)
          => IF jar.refresh.sub # UserId \/ ~user.is_active
             THEN /\ last'.status = 404
                  /\ ~last'.access /\ ~last'.refresh
                  /\ jar' = jar
             ELSE /\ last'.status = 200
                  /\ last'.access /\ ~last'.refresh
                  /\ jar'.access = [sub |-> UserId, iat |-> now]
                  /\ jar'.refresh = jar.refresh
      ]_vars

\* the account was active at login, was deactivated, and the refresh failed
C20_Witness ==
    /\ last.op = "refresh"
    /\ last.status = 404
    /\ jar.refresh.sub = UserId
    /\ now < jar.refresh.iat + RefreshTokenMinutes
    /\ user.last_login # None
    /\ ~user.is_active

\* C21: a protected endpoint accepts an access token only while now is before
\* its issue time plus 8 hours, and refresh accepts a refresh token only while
\* now is before its issue time plus 30 days; a request whose token is
\* missing or expired is answered 401 and changes neither the account nor
\* the cookies.
C21_TokenLifetimes ==
    [][ /\ last'.op \in {"get_profile", "logout"}
             => IF jar.access.sub # None /\ now < jar.access.iat + AccessTokenMinutes
                THEN last'.status # 401
                ELSE last'.status = 401 /\ user' = user /\ jar' = jar
        /\ last'.op = "refresh"
             => IF jar.refresh.sub # None /\ now < jar.refresh.iat + RefreshTokenMinutes
                THEN last'.status # 401
                ELSE last'.status = 401 /\ user' = user /\ jar' = jar
      ]_vars

\* a refresh token presented exactly 30 days after its issue was refused
C21_Witness ==
    /\ last.op = "refresh"
    /\ last.status = 401
    /\ last.error = "token_expired"
    /\ jar.refresh.sub = UserId
    /\ now = jar.refresh.iat + RefreshTokenMinutes

\* C22: a logout that succeeds leaves the client with neither cookie, and
\* from then on the client's requests to profile and refresh are answered
\* 401 until it logs in again.
C22_LogoutClearsCookies ==
    [][ /\ (last'.op = "logout" /\ last'.status = 200)
             => (jar'.access.sub = None /\ jar'.refresh.sub = None)
        /\ (last.op = "logout" /\ last.status = 200 /\ last'.op \in {"get_profile", "refresh"})
             => last'.status = 401
        /\ (jar.access.sub = None /\ jar.refresh.sub = None /\ last'.op # "login")
             => (jar'.access.sub = None /\ jar'.refresh.sub = None)
      ]_vars

\* a client that logged in earlier has logged out and holds no cookie
C22_Witness ==
    /\ last.op = "logout"
    /\ last.status = 200
    /\ user.last_login # None
    /\ jar.access.sub = None
    /\ jar.refresh.sub = None

---------------------------------------------------------------------------
(* The reset flow alone, with the tokens a completed reset has consumed     *)
(* noted down, as tests/integration/test_auth_flow.py keeps reset_token     *)

\* a step in which User.reset_password ran: called directly, or by the
\* reset-password endpoint answering 200
IsReset(l) ==
    \/ l.op = "reset_password"
    \/ l.op = "reset_password_endpoint" /\ l.status = 200

\* the token stored when reset_password ran is consumed
ObserveConsumed ==
    /\ used' = IF IsReset(last') /\ user.password_reset_token # None
               THEN used \cup {user.password_reset_token}
               ELSE used
    /\ UNCHANGED <<run, durations, jar, conc, kept>>

NextReset ==
    \/ \E d \in TickSteps : Tick(d, MaxTime) /\ UNCHANGED aside
    \/ Call_generate_password_reset_token /\ UNCHANGED aside
    \/ \E token \in CandidateTokens : Call_verify_password_reset_token(token) /\ UNCHANGED aside
    \/ \E p \in NewPasswords : Call_reset_password(p) /\ ObserveConsumed
    \/ \E email \in Emails, mail_ok \in BOOLEAN :
         request_password_reset(email, mail_ok) /\ UNCHANGED aside
    \/ \E email \in Emails, token \in CandidateTokens \cup {None}, p \in NewPasswords :
         reset_password_endpoint(email, token, p) /\ ObserveConsumed

SpecReset == Init /\ [][NextReset]_vars

---------------------------------------------------------------------------
(* The model's methods called directly, as tests/unit/test_models.py calls  *)
(* them, with the arguments those tests pass: strings, '' and None          *)

Plaintexts == {TestPassword, WrongPassword, ""}

NextCalls ==
    \/ \E d \in TickSteps : Tick(d, MaxTime) /\ UNCHANGED aside
    \/ \E p \in Plaintexts \ {""} : Call_set_password(p) /\ UNCHANGED aside
    \/ \E p \in Plaintexts : Call_check_password(FALSE, p) /\ UNCHANGED aside
    \/ Call_check_password(TRUE, "") /\ UNCHANGED aside
    \/ Call_generate_password_reset_token /\ UNCHANGED aside
    \/ \E token \in CandidateTokens \cup {None} :
         Call_verify_password_reset_token(token) /\ UNCHANGED aside

SpecCalls == Init /\ [][NextCalls]_vars

\* C27: check_password called with an empty or a null plaintext returns
\* false, whatever hash is stored, and does not raise.
C27_EmptyOrNullPlaintext ==
    [][ (last'.op = "check_password" /\ (last'.null_arg \/ last'.password = ""))
         => (~last'.ret /\ last'.raised = "")
      ]_vars

\* C28: verify_password_reset_token on an account holding a live, unexpired
\* token returns false, does not raise and leaves the token stored, for every
\* candidate that is not the stored token, the empty string and null included.
C28_WrongCandidateRefused ==
    [][ (/\ last'.op = "verify_password_reset_token"
         /\ user.password_reset_token # None
         /\ user.password_reset_expires # None
         /\ now <= user.password_reset_expires
         /\ last'.token # user.password_reset_token)
          => /\ ~last'.ret
             /\ last'.raised = ""
             /\ user' = user
      ]_vars

C13_SingleUse ==
    [][ /\ (last'.op = "verify_password_reset_token" /\ last'.token \in used)
             => ~last'.ret
        /\ (last'.op = "reset_password_endpoint" /\ last'.token \in used)
             => /\ last'.status = 400
                /\ user'.password_hash = user.password_hash
      ]_vars

\* a second reset-password request with a consumed token and a good password
C13_Witness ==
    /\ last.op = "reset_password_endpoint"
    /\ last.ident = Email
    /\ last.token \in used
    /\ last.password = NewPassword
    /\ last.status = 400
    /\ last.error = "Invalid or expired reset token"

\* C11: generate_password_reset_token at time T stores the token it returns
\* with expiry T + 1 hour in place of whatever was stored, so the account
\* holds one live token at most: once a later token has been issued, verify
\* with an earlier one returns false, and verify with the latest one, still
\* stored and unexpired, returns true.
C11_IssueOverwrites ==
    [][ /\ last'.op = "generate_password_reset_token"
             => /\ user'.password_reset_token = last'.token
                /\ user'.password_reset_expires = now' + ResetTokenMinutes
                /\ last'.token # user.password_reset_token
        /\ (last'.op = "verify_password_reset_token" /\ last'.token # tokens_issued)
             => ~last'.ret
        /\ (/\ last'.op = "verify_password_reset_token"
            /\ last'.token = tokens_issued
            /\ user.password_reset_token = tokens_issued
            /\ now <= user.password_reset_expires)
             => last'.ret
      ]_vars

\* a first token is refused after the second was issued and is now stored
C11_Witness ==
    /\ last.op = "verify_password_reset_token"
    /\ tokens_issued = 2
    /\ last.token = 1
    /\ ~last.ret
    /\ user.password_reset_token = 2

\* C12: verify_password_reset_token called later than the stored expiry
\* returns false for every candidate, the stored token included, and leaves
\* password_reset_token and password_reset_expires both null; called no later
\* than the expiry it returns true exactly when the candidate equals the
\* stored token.
C12_VerifyAgainstExpiry ==
    [][ (/\ last'.op = "verify_password_reset_token"
         /\ user.password_reset_token # None
         /\ user.password_reset_expires # None)
          => IF now > user.password_reset_expires
             THEN /\ ~last'.ret
                  /\ user'.password_reset_token = None
                  /\ user'.password_reset_expires = None
             ELSE last'.ret = (last'.token = user.password_reset_token)
      ]_vars

\* the stored token itself was presented after its expiry: refused and cleared
C12_Witness ==
    /\ last.op = "verify_password_reset_token"
    /\ last.had_token
    /\ last.token = tokens_issued
    /\ ~last.ret
    /\ user.password_reset_token = None
    /\ user.password_reset_expires = None

\* C16: a verify_password_reset_token that returns true changes nothing of the
\* account, the stored token and expiry included, so a verify of the same
\* token right after it returns true again.
C16_VerifyMutatesNothing ==
    [][ /\ (last'.op = "verify_password_reset_token" /\ last'.ret) => user' = user
        /\ (/\ last.op = "verify_password_reset_token" /\ last.ret
            /\ last'.op = "verify_password_reset_token" /\ last'.token = last.token)
             => last'.ret
      ]_vars

\* the token is still stored after a verify that accepted it
C16_Witness ==
    /\ last.op = "verify_password_reset_token"
    /\ last.ret
    /\ user.password_reset_token = last.token
    /\ user.password_reset_expires # None

C15_AfterReset ==
    [][ /\ IsReset(last')
             => /\ user'.password_hash.password = last'.password
                /\ user'.password_hash.password # user.password_hash.password
                /\ user'.password_reset_token = None
                /\ user'.password_reset_expires = None
                /\ user'.failed_login_attempts = 0
                /\ user'.locked_until = None
        /\ (/\ IsReset(last)
            /\ last'.op = "login"
            /\ last'.ident \in {Username, Email}
            /\ last'.password = last.password)
             => last'.status = 200 /\ last'.access
      ]_vars

\* C15 amended: after reset_password, from any prior state, the new password
\* verifies, the old one does not when it differs from the new, token and
\* expiry are null, the counter is 0, the lock is null, and a login with the
\* new password right after it succeeds when the account is active and is
\* refused as deactivated when it is not.
C15_AfterResetActive ==
    [][ /\ IsReset(last')
             => /\ user'.password_hash.password = last'.password
                /\ (last'.password # user.password_hash.password
                      => user'.password_hash.password # user.password_hash.password)
                /\ user'.password_reset_token = None
                /\ user'.password_reset_expires = None
                /\ user'.failed_login_attempts = 0
                /\ user'.locked_until = None
        /\ (/\ IsReset(last)
            /\ last'.op = "login"
            /\ last'.ident \in {Username, Email}
            /\ last'.password = last.password)
             => IF user.is_active
                THEN last'.status = 200 /\ last'.access
                ELSE last'.status = 401 /\ last'.error = "Account is deactivated"
      ]_vars

\* a reset-password request on a locked account lifted the lock
C15_Witness ==
    /\ last.op = "reset_password_endpoint"
    /\ last.status = 200
    /\ last.was_locked
    /\ user.locked_until = None
    /\ user.failed_login_attempts = 0

---------------------------------------------------------------------------
(* What the endpoints give away *)

\* C17: a password-reset request for a non-existent or inactive account
\* generates no token, and every password-reset request naming an email
\* address gets the same response, whoever it names and whether or not the
\* email could be delivered.
C17_ResetRequestsIndistinguishable ==
    [][ (last'.op = "request_password_reset" /\ last'.ident # "")
         => /\ last'.status = 200
            /\ last'.error = ""
            /\ (last'.ident # Email \/ ~user.is_active)
                 => /\ user' = user
                    /\ tokens_issued' = tokens_issued
      ]_vars

\* C18: a login with an unknown identifier and a login with a known
\* identifier and a wrong password on an unlocked account get the same
\* response, 401 'Invalid credentials' and no cookie, and the
\* unknown-identifier login changes nothing of the account.
C18_InvalidCredentialsAlike ==
    [][ (last'.op = "login" /\ last'.ident # "" /\ last'.password # "")
         => /\ last'.ident \notin {Username, Email}
                 => /\ last'.status = 401
                    /\ last'.error = "Invalid credentials"
                    /\ ~last'.access /\ ~last'.refresh
                    /\ user' = user
            /\ (/\ last'.ident \in {Username, Email}
                /\ ~last'.was_locked
                /\ last'.password # user.password_hash.password)
                 => /\ last'.status = 401
                    /\ last'.error = "Invalid credentials"
                    /\ ~last'.access /\ ~last'.refresh
      ]_vars

\* a login naming nobody was answered, on an account that has failures recorded
C18_Witness ==
    /\ last.op = "login"
    /\ last.ident \notin {Username, Email}
    /\ last.status = 401
    /\ last.error = "Invalid credentials"
    /\ user.failed_login_attempts > 0

\* C19: login issues an access token only when the account exists, is not
\* locked, the password verifies and is_active is true; it issues a refresh
\* token only in such a login that asked for remember_me; every other
\* outcome of login issues no token.
C19_TokensOnlyOnSuccess ==
    [][ last'.op = "login"
         => /\ last'.access
                 => /\ last'.ident \in {Username, Email}
                    /\ ~last'.was_locked
                    /\ last'.password = user.password_hash.password
                    /\ user.is_active
                    /\ last'.status = 200
            /\ last'.refresh => (last'.access /\ last'.remember_me)
            /\ last'.status # 200 => (~last'.access /\ ~last'.refresh)
      ]_vars

\* a login with remember_me got both tokens
C19_Witness ==
    /\ last.op = "login"
    /\ last.status = 200
    /\ last.remember_me
    /\ last.access
    /\ last.refresh

---------------------------------------------------------------------------
(* Requests that overlap: login as its query and, later, the rest of the    *)
(* handler on the row the query loaded; User.reset_password as its two      *)
(* commits (clear_password_reset_token commits before the counters are      *)
(* reset)                                                                   *)

RaceHorizon == 10
RaceCap == 4

\* variant of commit that writes every column of the request's row
commit_whole_row(db, loaded, row) == row

\* variant of commit that adds the request's increment to the counter the
\* database holds
commit_relative(db, loaded, row) ==
    [f \in DOMAIN db |->
        IF f = "failed_login_attempts"
        THEN db[f] + (row[f] - loaded[f])
        ELSE IF row[f] # loaded[f] THEN row[f] ELSE db[f]]

\* db.session.commit(): the UPDATE sets the columns the request changed on
\* the row it loaded, and leaves the others as the database has them
commit(db, loaded, row) ==
    [f \in DOMAIN db |-> IF row[f] # loaded[f] THEN row[f] ELSE db[f]]

InFlight == {w \in Workers : txn.login[w].pc = "loaded"}

\* login, up to User.query...first()
LoginBegin(w, password) ==
    /\ txn.login[w].pc = "idle"
    /\ counted < RaceCap
    /\ txn' = [txn EXCEPT !.login[w] =
                  [pc |-> "loaded", row |-> user, password |-> password]]
    /\ overlapped' = (overlapped \/ InFlight # {} \/ txn.reset.pc # "idle")
    /\ last' = [Step("query") EXCEPT !.ident = Username, !.password = password]
    /\ UNCHANGED <<now, user, tokens_issued, counted>>

\* login, from the lock check to the response, on the row the query loaded
LoginEnd(w) ==
    /\ txn.login[w].pc = "loaded"
    /\ LET row      == txn.login[w].row
           password == txn.login[w].password
           req      == [Step("login") EXCEPT !.ident = Username, !.password = password,
                                             !.was_locked = LockWindowOpen(row, now),
                                             !.lock_expired = LockRunOut(row, now)]
       IN
       IF is_account_locked(row, now)
       THEN /\ last' = [req EXCEPT !.status = 401,
                                   !.error = "Account temporarily locked due to failed login attempts",
                                   !.events = <<"LOGIN_BLOCKED_LOCKED">>]
            /\ UNCHANGED <<user, counted>>
       ELSE IF ~check_password(row, password)
       THEN LET r == handle_failed_login(row, now)
            IN  /\ user' = commit(user, row, r.user)
                /\ counted' = counted + 1
                /\ last' = [req EXCEPT !.status = 401, !.error = "Invalid credentials",
                                       !.events = r.events, !.details = r.details]
       ELSE IF ~row.is_active
       THEN /\ last' = [req EXCEPT !.status = 401, !.error = "Account is deactivated",
                                   !.events = <<"LOGIN_BLOCKED_INACTIVE">>]
            /\ UNCHANGED <<user, counted>>
       ELSE LET r == handle_successful_login(row, now)
            IN  /\ user' = commit(user, row, r.user)
                /\ counted' = 0
                /\ last' = [req EXCEPT !.status = 200, !.access = TRUE,
                                       !.events = r.events]
    /\ txn' = [txn EXCEPT !.login[w] = Idle]
    /\ UNCHANGED <<now, tokens_issued, overlapped>>

\* unlock_account(), one commit
RaceUnlock ==
    /\ Call_unlock_account
    /\ counted' = 0
    /\ overlapped' = (overlapped \/ InFlight # {} \/ txn.reset.pc # "idle")
    /\ UNCHANGED txn

\* reset_password(), up to the commit inside clear_password_reset_token
ResetBegin(new_password) ==
    /\ txn.reset.pc = "idle"
    /\ \E salt \in FreshSalts(user) :
         user' = clear_password_reset_token(set_password(user, new_password, salt))
    /\ txn' = [txn EXCEPT !.reset = [pc |-> "cleared"]]
    /\ overlapped' = (overlapped \/ InFlight # {})
    /\ last' = [Step("clear_password_reset_token") EXCEPT !.password = new_password]
    /\ UNCHANGED <<now, tokens_issued, counted>>

\* reset_password(), from the reset of the counters to its own commit
ResetEnd ==
    /\ txn.reset.pc = "cleared"
    /\ user' = [user EXCEPT !.failed_login_attempts = 0, !.locked_until = None]
    /\ txn' = [txn EXCEPT !.reset = [pc |-> "idle"]]
    /\ counted' = 0
    /\ last' = [Step("reset_password")
                   EXCEPT !.password = user.password_hash.password,
                          !.events = <<"PASSWORD_RESET_COMPLETED">>]
    /\ UNCHANGED <<now, tokens_issued, overlapped>>

\* what a login handled in one piece adds to the observers
ObserveCount ==
    /\ counted' = IF last'.error = "Invalid credentials" /\ NamesAccount(last')
                  THEN counted + 1
                  ELSE IF last'.status = 200 THEN 0 ELSE counted
    /\ overlapped' = (overlapped \/ txn.reset.pc # "idle")
    /\ UNCHANGED txn

(* Two login requests that may overlap, and the manual unlock *)

NextRace ==
    \/ \E d \in LockoutSteps : Tick(d, RaceHorizon) /\ UNCHANGED aside
    \/ \E w \in Workers, password \in {TestPassword, WrongPassword} :
         LoginBegin(w, password) /\ UNCHANGED <<run, durations, used, jar, kept>>
    \/ \E w \in Workers : LoginEnd(w) /\ UNCHANGED <<run, durations, used, jar, kept>>
    \/ RaceUnlock /\ UNCHANGED <<run, durations, used, jar, kept>>

SpecRace == Init /\ [][NextRace]_vars

(* Logins handled in one piece, and a password reset whose two commits they
   may fall between *)

NextCommits ==
    \/ \E d \in LockoutSteps : Tick(d, LockoutHorizon) /\ UNCHANGED aside
    \/ \E password \in {TestPassword, WrongPassword, NewPassword} :
         login(Username, password, FALSE)
            /\ ObserveCount /\ UNCHANGED <<run, durations, used, jar, kept>>
    \/ RaceUnlock /\ UNCHANGED <<run, durations, used, jar, kept>>
    \/ ResetBegin(NewPassword) /\ UNCHANGED <<run, durations, used, jar, kept>>
    \/ ResetEnd /\ UNCHANGED <<run, durations, used, jar, kept>>

SpecCommits == Init /\ [][NextCommits]_vars

---------------------------------------------------------------------------
(* The security event sink failing: log_security_event raises, nothing in   *)
(* the User methods catches it, and login's except clause answers 500       *)

\* POST /login while log_security_event raises
login_sink_down(ident, password, remember_me) ==
    /\ LET req  == [Step("login") EXCEPT !.ident = ident, !.password = password,
                                         !.remember_me = remember_me]
           fail == [req EXCEPT !.status = 500, !.error = "Login failed",
                               !.raised = "log_security_event"]
       IN
       IF ident = "" \/ password = ""
       THEN /\ last' = [req EXCEPT !.status = 400,
                                   !.error = "Username/email and password are required"]
            /\ user' = user
       ELSE IF ~find_by_username_or_email(ident)
       THEN /\ last' = [req EXCEPT !.status = unknown_user_response.status,
                                   !.error = unknown_user_response.error]
            /\ user' = user
       ELSE IF is_account_locked(user, now)
       THEN /\ last' = fail
            /\ user' = user
       ELSE IF ~check_password(user, password)
       THEN \* handle_failed_login raises before its commit
            /\ last' = fail
            /\ user' = user
       ELSE IF ~user.is_active
       THEN /\ last' = fail
            /\ user' = user
       ELSE \* handle_successful_login raises after update_last_login committed
            /\ last' = fail
            /\ user' = handle_successful_login(user, now).user
    /\ UNCHANGED <<now, tokens_issued>>

NextFaults ==
    \/ \E d \in LockoutSteps : Tick(d, LockoutHorizon) /\ UNCHANGED aside
    \/ \E req \in LoginRequests, remember_me \in BOOLEAN :
         login(req[1], req[2], remember_me) /\ UNCHANGED aside
    \/ \E req \in LoginRequests, remember_me \in BOOLEAN :
         login_sink_down(req[1], req[2], remember_me) /\ UNCHANGED aside
    \/ Call_unlock_account /\ UNCHANGED aside

SpecFaults == Init /\ [][NextFaults]_vars

\* C26: a login during which log_security_event raised is answered as it
\* would have been otherwise: never with the 500 of a failed operation.
C26_SinkFailureHarmless ==
    [][ (last'.op = "login" /\ last'.raised = "log_security_event")
         => last'.status # 500
      ]_vars

\* C23: a login records its failure on the counter it read at its query, so
\* two wrong-password logins that overlap can leave failed_login_attempts
\* grown by less than 2: the failure that commits last writes the counter it
\* loaded plus one, whatever was committed meanwhile.
C23_FailureWritesLoadedCount ==
    [][ \A w \in Workers :
          (/\ txn.login[w].pc = "loaded"
           /\ txn'.login[w].pc = "idle"
           /\ last'.error = "Invalid credentials")
            => user'.failed_login_attempts = txn.login[w].row.failed_login_attempts + 1
      ]_vars

\* two wrong-password logins have completed and the counter stands at 1
C23_Witness ==
    /\ counted = 2
    /\ user.failed_login_attempts = 1
    /\ InFlight = {}
    /\ last.op = "login"
    /\ last.error = "Invalid credentials"

\* C24: while the operations on the account have run one at a time,
\* failed_login_attempts equals the number of wrong-password logins that
\* passed the lock check since the most recent successful login, manual
\* unlock or password reset, or since creation.
C24_SerializedCount ==
    (~overlapped /\ InFlight = {} /\ txn.reset.pc = "idle")
        => user.failed_login_attempts = counted

\* four failures, one at a time, since a password reset: the fourth after
\* the first lock ran out
C24_Witness ==
    /\ ~overlapped
    /\ txn.reset.pc = "idle"
    /\ user.password_hash.password = NewPassword
    /\ counted = 4
    /\ user.failed_login_attempts = 4

\* C25: every commit of a password reset carries the whole operation: a step
\* that changes the stored hash also leaves the counter at 0 and the lock and
\* the reset token null, so that no request sees the one without the other.
C25_ResetAllOrNothing ==
    [][ user'.password_hash # user.password_hash
         => /\ user'.failed_login_attempts = 0
            /\ user'.locked_until = None
            /\ user'.password_reset_token = None
            /\ user'.password_reset_expires = None
      ]_vars

\* C30 as stated: in every reachable state, locked_until null goes with a
\* counter of 0, 1 or 2, locked_until set goes with a counter of 3 or more,
\* and the counter is never negative.
C30_LockAndCounter ==
    /\ user.failed_login_attempts >= 0
    /\ user.locked_until = None => user.failed_login_attempts \in {0, 1, 2}
    /\ user.locked_until # None => user.failed_login_attempts >= 3

\* C30 amended: the same, in every state reached by requests that ran one at
\* a time; the counter is never negative in any case.
C30_LockAndCounterSerialized ==
    /\ user.failed_login_attempts >= 0
    /\ (~overlapped /\ txn.reset.pc = "idle")
         => /\ user.locked_until = None => user.failed_login_attempts \in {0, 1, 2}
            /\ user.locked_until # None => user.failed_login_attempts >= 3

\* a lock set by requests that ran one at a time
C30_Witness ==
    /\ ~overlapped
    /\ txn.reset.pc = "idle"
    /\ user.locked_until # None
    /\ user.failed_login_attempts = 3
    /\ counted = 3

---------------------------------------------------------------------------
(* The lockout state machine over the length of the longest lock: the clock  *)
(* moves five minutes at a time at first and then by whole lock caps         *)

LongHorizon == 500
LongSteps == {LockoutCapMinutes}

NextLockExpiry ==
    \/ \E d \in LockoutSteps : Tick(d, LockoutHorizon) /\ UNCHANGED aside
    \/ \E d \in LongSteps : Tick(d, LongHorizon) /\ UNCHANGED aside
    \/ Call_is_account_locked /\ UNCHANGED aside
    \/ Call_handle_failed_login /\ UNCHANGED aside
    \/ Call_unlock_account /\ UNCHANGED aside
    \/ \E password \in {TestPassword, WrongPassword} :
         login(Username, password, FALSE) /\ UNCHANGED aside

SpecLockExpiry == Init /\ [][NextLockExpiry]_vars

---------------------------------------------------------------------------
(* Properties of the lock over time                                          *)

\* C31: whenever an operation at time now sets locked_until, the value it
\* stores is at least now + 5 minutes, so it is strictly later than now and
\* the account is locked right after the operation.
C31_LockSetInFuture ==
    [][ (\/ last'.events = <<"ACCOUNT_LOCKED">>
         \/ user'.locked_until # None /\ user'.locked_until # user.locked_until)
          => /\ user'.locked_until # None
             /\ user'.locked_until >= now + 5
             /\ user'.locked_until > now'
      ]_vars

\* a login request set a second lock, of ten minutes, after the first ran out
C31_Witness ==
    /\ last.op = "login"
    /\ last.events = <<"ACCOUNT_LOCKED">>
    /\ ~last.was_locked
    /\ user.failed_login_attempts = 4
    /\ user.locked_until = now + 10

\* C33: every handle_failed_login call, made directly or by login on a wrong
\* password, emits exactly one security event: ACCOUNT_LOCKED with the attempt
\* count and the duration if the new failure count is >= 3, otherwise
\* LOGIN_FAILED with the attempt count; a login blocked by the lock emits
\* LOGIN_BLOCKED_LOCKED and neither of the two.
C33_OneEventPerFailure ==
    [][ /\ (\/ last'.op = "handle_failed_login"
             \/ /\ IsAccountLogin(last')
                /\ ~LockWindowOpen(user, now)
                /\ last'.password # user.password_hash.password)
          => LET n == user.failed_login_attempts + 1
             IN  /\ Len(last'.events) = 1
                 /\ last'.details.attempts = n
                 /\ IF n >= 3
                    THEN /\ last'.events[1] = "ACCOUNT_LOCKED"
                         /\ last'.details.duration = Min(5 * (2 ^ (n - 3)), 240)
                    ELSE /\ last'.events[1] = "LOGIN_FAILED"
                         /\ last'.details.duration = None
        /\ (IsAccountLogin(last') /\ LockWindowOpen(user, now))
          => last'.events = <<"LOGIN_BLOCKED_LOCKED">>
      ]_vars

\* a wrong-password login made the fifth failure and logged the lock of
\* twenty minutes
C33_Witness ==
    /\ last.op = "login"
    /\ last.events = <<"ACCOUNT_LOCKED">>
    /\ last.details = [attempts |-> 5, duration |-> 20]
    /\ user.failed_login_attempts = 5

\* C37: login checks the password before is_active: on an inactive account
\* that is not locked, a wrong password is recorded as a failure (the counter
\* goes up by one and the third failure locks) and answered 'Invalid
\* credentials'; the correct password is answered 'Account is deactivated',
\* issues no token and leaves failed_login_attempts, locked_until and
\* last_login as they were.
C37_PasswordBeforeActive ==
    [][ (IsAccountLogin(last') /\ ~user.is_active /\ ~LockWindowOpen(user, now))
          => IF last'.password # user.password_hash.password
             THEN /\ last'.status = 401
                  /\ last'.error = "Invalid credentials"
                  /\ ~last'.access /\ ~last'.refresh
                  /\ user'.failed_login_attempts = user.failed_login_attempts + 1
                  /\ user'.failed_login_attempts >= 3 => LockWindowOpen(user', now)
             ELSE /\ last'.status = 401
                  /\ last'.error = "Account is deactivated"
                  /\ ~last'.access /\ ~last'.refresh
                  /\ user'.failed_login_attempts = user.failed_login_attempts
                  /\ user'.locked_until = user.locked_until
                  /\ user'.last_login = user.last_login
      ]_vars

\* the correct password was refused on an inactive account that carries two
\* recorded failures and has never logged in
C37_Witness ==
    /\ last.op = "login"
    /\ last.error = "Account is deactivated"
    /\ last.remember_me
    /\ ~user.is_active
    /\ user.failed_login_attempts = 2
    /\ user.last_login = None

---------------------------------------------------------------------------
(* Properties of the reset endpoints                                         *)

C34_RejectedResetChangesNothing ==
    [][ (/\ last'.op = "reset_password_endpoint"
         /\ last'.ident = Email
         /\ last'.token # None
         /\ user.password_reset_token # None
         /\ now <= user.password_reset_expires
         /\ \/ last'.token # user.password_reset_token
            \/ last'.password = WeakPassword)
          => /\ last'.status = 400
             /\ user'.password_hash = user.password_hash
             /\ user'.password_reset_token = user.password_reset_token
             /\ user'.password_reset_expires = user.password_reset_expires
             /\ user'.failed_login_attempts = user.failed_login_attempts
             /\ user'.locked_until = user.locked_until
      ]_vars

\* a wrong token was refused on an account with two failed logins behind it:
\* the stored token and the counter are as they were
C34_Witness ==
    /\ last.op = "reset_password_endpoint"
    /\ last.error = "Invalid or expired reset token"
    /\ last.token # None
    /\ user.password_reset_token # None
    /\ last.token # user.password_reset_token
    /\ now <= user.password_reset_expires
    /\ user.failed_login_attempts = 2
    /\ user.locked_until = None

C36_LockNeverPermanent ==
    [][ /\ LockWindowOpen(user', now') => now' < user'.last_failed_login + 240
        /\ (/\ IsAccountLogin(last')
            /\ last'.password = user.password_hash.password
            /\ user.locked_until # None
            /\ now >= user.locked_until \/ now >= user.last_failed_login + 240)
             => /\ last'.status = 200
                /\ last'.access
                /\ user'.locked_until = None
      ]_vars

\* C36 amended: the same, the login succeeding if the account is active; on
\* an inactive account it is answered 'Account is deactivated' and the row
\* stays as it was.
C36_LockNeverPermanentActive ==
    [][ /\ LockWindowOpen(user', now') => now' < user'.last_failed_login + 240
        /\ (/\ IsAccountLogin(last')
            /\ last'.password = user.password_hash.password
            /\ user.locked_until # None
            /\ now >= user.locked_until \/ now >= user.last_failed_login + 240)
             => IF user.is_active
                THEN /\ last'.status = 200
                     /\ last'.access
                     /\ user'.locked_until = None
                ELSE /\ last'.error = "Account is deactivated"
                     /\ user' = user
      ]_vars

\* the correct password was accepted 240 minutes or more into the run, on an
\* account whose lock had run out
C36_Witness ==
    /\ last.op = "login"
    /\ last.lock_expired
    /\ last.status = 200
    /\ now >= 240
    /\ user.locked_until = None
    /\ user.failed_login_attempts = 0

---------------------------------------------------------------------------
(* Properties of requests that overlap                                       *)

\* a login that ends in this step, on a row it loaded unlocked, with the
\* correct password for an active account
SucceedsOnLoadedRow(w) ==
    /\ txn.login[w].pc = "loaded"
    /\ txn'.login[w].pc = "idle"
    /\ ~LockWindowOpen(txn.login[w].row, now)
    /\ txn.login[w].password = txn.login[w].row.password_hash.password
    /\ txn.login[w].row.is_active

---------------------------------------------------------------------------
(* Sessions against account events: a refresh cookie is a bearer token, and  *)
(* a copy of it made at login (a second device, an intercepted cookie) is    *)
(* out of reach of the Set-Cookie headers of later responses                 *)

\* the copy is made of the refresh cookie a login response sets
KeepCopy ==
    kept' = IF last'.refresh
            THEN [refresh |-> create_token(UserId, now), since |-> {}]
            ELSE kept

\* something has happened to the account since the copied cookie was issued
Note(event) ==
    kept' = IF kept.refresh # NoToken
            THEN [kept EXCEPT !.since = @ \cup {event}]
            ELSE kept

\* the holder of the copy puts it in the jar
ReplayCopy ==
    /\ kept.refresh # NoToken
    /\ jar.refresh # kept.refresh
    /\ jar' = [jar EXCEPT !.refresh = kept.refresh]
    /\ last' = Step("replay")
    /\ UNCHANGED <<now, user, tokens_issued, kept>>

NextRevocation ==
    \/ \E d \in SessionSteps : Tick(d, SessionHorizon) /\ UNCHANGED aside
    \/ \E password \in {TestPassword, WrongPassword}, remember_me \in BOOLEAN :
         login(Username, password, remember_me)
            /\ StoreLoginCookies /\ KeepCopy /\ UNCHANGED <<run, durations, used, conc>>
    \/ logout /\ (IF last'.status = 200 THEN Note("logout") ELSE UNCHANGED kept)
              /\ UNCHANGED <<run, durations, used, conc>>
    \/ Call_reset_password(NewPassword) /\ Note("reset")
              /\ UNCHANGED <<run, durations, used, jar, conc>>
    \/ Deactivate /\ UNCHANGED aside
    \/ ReplayCopy /\ UNCHANGED <<run, durations, used, conc>>
    \/ refresh /\ UNCHANGED <<run, durations, used, conc, kept>>

SpecRevocation == Init /\ [][NextRevocation]_vars

---------------------------------------------------------------------------
(* The reset endpoints on an account that is locked or deactivated           *)

NextResetGate ==
    \/ \E d \in TickSteps : Tick(d, MaxTime) /\ UNCHANGED aside
    \/ \E password \in {TestPassword, WrongPassword} :
         login(Username, password, FALSE) /\ UNCHANGED aside
    \/ Deactivate /\ UNCHANGED aside
    \/ \E mail_ok \in BOOLEAN :
         request_password_reset(Email, mail_ok) /\ UNCHANGED aside
    \/ \E token \in CandidateTokens, p \in NewPasswords :
         reset_password_endpoint(Email, token, p) /\ UNCHANGED aside

SpecResetGate == Init /\ [][NextResetGate]_vars

\* C40: the reset-password endpoint looks at neither is_active nor the lock:
\* a request carrying the stored, unexpired token and a strong password is
\* answered 200, changes the password and leaves the counter at 0 and
\* locked_until null, whether or not the account is locked or has been
\* deactivated since the token was issued; is_active stays as it is.  A
\* reset request for an inactive account issues no token.
C40_ResetIgnoresGate ==
    [][ /\ (/\ last'.op = "reset_password_endpoint"
            /\ last'.ident = Email
            /\ user.password_reset_token # None
            /\ last'.token = user.password_reset_token
            /\ now <= user.password_reset_expires
            /\ last'.password = NewPassword)
             => /\ last'.status = 200
                /\ user'.password_hash.password = NewPassword
                /\ user'.failed_login_attempts = 0
                /\ user'.locked_until = None
                /\ user'.password_reset_token = None
                /\ user'.is_active = user.is_active
        /\ (last'.op = "request_password_reset" /\ ~user.is_active)
             => /\ last'.status = 200
                /\ user' = user
                /\ tokens_issued' = tokens_issued
      ]_vars

\* a token issued while the account was active was consumed after the
\* account had been deactivated and while it was locked
C40_Witness ==
    /\ last.op = "reset_password_endpoint"
    /\ last.status = 200
    /\ last.was_locked
    /\ ~user.is_active
    /\ tokens_issued > 0
    /\ user.password_hash.password = NewPassword
    /\ user.failed_login_attempts = 0
    /\ user.locked_until = None

====
